---- MODULE Spec2Model ----
(***************************************************************************)
(* Living Library: the ingestion pipeline of chunking.py (discovery,       *)
(* process_pdf, insert_batch, main), the single-document entry point       *)
(* vectorize_pdf of python/vector_pipeline.py, the page resolver           *)
(* get_pdf_page and the search endpoint semantic_search of main.py, and    *)
(* the two chunk_text segmenters, as state machines.                       *)
(*                                                                         *)
(* A step of a run is the code between two database round trips: the       *)
(* discovery query, the file_id lookup and open of process_pdf, the page   *)
(* loop up to the next flush, one insert_batch transaction.                *)
(***************************************************************************)
EXTENDS Integers, Sequences, FiniteSets, TLC

\* ---------------------------------------------------------------- bounds
NumFiles == 2        \* file_asset rows: file_id 1..NumFiles
NumRuns == 2         \* processes that run chunking.py at the same time
MaxRuns == 2         \* invocations of chunking.py and vectorize_pdf, one after the other
MaxVectorize == 1    \* invocations of vectorize_pdf
MaxDocPages == 2     \* pages of the document get_pdf_page opens
NumMaterials == 3    \* materials the search runs over
NumChunks == 3       \* embedded chunks the search runs over
MaxDistance == 2     \* vector distances are 0..MaxDistance
MaxYear == 1         \* years are 0..MaxYear
MaxLimit == 2        \* the request's limit is 0..MaxLimit
MaxSegments == 3     \* runs of equal characters in a text given to chunk_text
MaxWindows == 4      \* iterations of the while loop of chunk_text followed
MaxTextLen == 5      \* characters of a text given to the word-based chunk_text
SmallPage == 2       \* chunks the segmenter returns for a short page
BigPage == 99        \* chunks the segmenter returns for a long page

\* ------------------------------------------------------ program constants
batch_size == 100    \* chunking.py:92

Files == 1..NumFiles
Runs == 1..NumRuns
Providers == {"local", "supabase"}

\* file 1 is the only asset of material 1; files 2k, 2k+1 share material k+1
MaterialOf(f) == (f \div 2) + 1

\* A page of a document: blank (its text is empty after strip()), or text for
\* which the character segmenter chunk_text returns n chunks (0 when the page
\* is shorter than the 50-character post-filter).
BlankPage == [blank |-> TRUE, n |-> 0]
TextPage(n) == [blank |-> FALSE, n |-> n]

\* What PDF_BASE_DIR / storage_path holds: nothing, a file fitz cannot open,
\* or a document (a sequence of pages).
ChunklessDoc == <<BlankPage, TextPage(0)>>
SmallDoc == <<TextPage(SmallPage), BlankPage, TextPage(SmallPage)>>
BigDoc == <<TextPage(BigPage), TextPage(SmallPage)>>
Documents == {ChunklessDoc, SmallDoc, BigDoc}
OnDisk(d) == [state |-> "document", pages |-> d]
DiskStates ==
    {[state |-> "missing", pages |-> <<>>], [state |-> "corrupt", pages |-> <<>>]}
    \cup {OnDisk(d) : d \in Documents}

IsDocument(d) == d.state = "document"

VARIABLES
    file_asset,      \* file_id -> [material_id, is_primary, storage_provider]
    disk,            \* file_id -> what its storage_path holds on disk
    text_chunk,      \* table text_chunk, in insertion order; chunk_id = index
    chunk_embedding, \* table chunk_embedding, in insertion order
    pc,              \* run -> position in main()
    materials,       \* run -> list returned by get_materials_to_process
    idx,             \* run -> 1-based position of main()'s for loop
    run_total,       \* run -> main()'s total_chunks
    file_id,         \* run -> process_pdf's file_id
    page_num,        \* run -> process_pdf's page_num (0-based)
    chunk_k,         \* run -> chunks of the current page already buffered
    batch_chunks,    \* run -> process_pdf's batch_chunks
    doc_total,       \* run -> process_pdf's total_chunks
    doc,             \* run -> handle of fitz.open: "none", "open", "closed"
    attempted,       \* run -> log of process_pdf calls made by main()
    error,           \* run -> what raised the exception that ended the run
    seen_processed,  \* run -> file_ids that had a text_chunk at discovery
    base_count,      \* run -> rows of text_chunk at discovery
    base_embeddings, \* run -> rows of chunk_embedding at discovery
    after_complete,  \* run -> the store is as a completed run left it
    last_completed,  \* the store is as a completed run left it
    partial,         \* documents a run gave up on after committing a group
    runs_started,    \* number of invocations of chunking.py so far
    vec_calls,       \* number of vectorize_pdf calls made
    vp_pc,           \* vectorize_pdf: position of the last call
    vp_doc,          \* vectorize_pdf: doc, "none" for None
    vp_session,      \* vectorize_pdf: the session, passed in or created
    vp_error,        \* vectorize_pdf: the step that raised, statements executed
    rp_pc,           \* get_pdf_page: position of the request
    rp_in,           \* get_pdf_page: page_num, the file_asset row, the setup
    rp_doc,          \* get_pdf_page: doc: "none", "open", "closed"
    rp_closes,       \* get_pdf_page: calls of doc.close() so far
    rp_status,       \* get_pdf_page: HTTP status raised or returned, 0 = none
    rp_calls,        \* get_pdf_page: the outside calls the request has made
    ss_pc,           \* semantic_search: position of the request
    ss_req,          \* semantic_search: request.topic, year_min, year_max, limit
    ss_model,        \* the global embedding_model is loaded
    ss_distance,     \* ce.embedding <=> :embedding of every embedded chunk
    ss_results,      \* semantic_search: the "results" list returned
    ss_status,       \* semantic_search: HTTP status, 0 = none
    ss_calls,        \* semantic_search: the outside calls the request has made
    ct_pc,           \* chunk_text: position of the call
    ct_text,         \* chunk_text: text_content, as runs of equal characters
    ct_size,         \* chunk_text: chunk_size
    ct_overlap,      \* chunk_text: overlap
    ct_start,        \* chunk_text: start
    ct_chunks,       \* chunk_text: chunks, each with the window it was cut from
    ct_out,          \* chunk_text: the list returned
    wt_pc,           \* word chunk_text: position of the generator
    wt_text,         \* word chunk_text: text, a sequence of characters
    wt_size,         \* word chunk_text: chunk_size
    wt_overlap,      \* word chunk_text: overlap
    wt_words,        \* word chunk_text: words
    wt_start,        \* word chunk_text: start
    wt_out           \* word chunk_text: the chunks yielded so far

store == <<text_chunk, chunk_embedding>>
corpus == <<file_asset, disk>>
pdf_locals == <<file_id, page_num, chunk_k, batch_chunks, doc_total>>
at_start == <<seen_processed, base_count, base_embeddings, after_complete>>
locals == <<pc, materials, idx, run_total, pdf_locals, doc, attempted, error,
            at_start>>
history == <<last_completed, partial>>
vectorizer == <<vp_pc, vp_doc, vp_session, vp_error>>
calls == <<runs_started, vec_calls, vectorizer>>
resolver == <<rp_pc, rp_in, rp_doc, rp_closes, rp_status, rp_calls>>
search == <<ss_pc, ss_req, ss_model, ss_distance, ss_results, ss_status,
            ss_calls>>
segmenter == <<ct_pc, ct_text, ct_size, ct_overlap, ct_start, ct_chunks, ct_out>>
splitter == <<wt_pc, wt_text, wt_size, wt_overlap, wt_words, wt_start, wt_out>>
pipeline == <<file_asset, disk, text_chunk, chunk_embedding, pc, materials, idx,
              run_total, file_id, page_num, chunk_k, batch_chunks, doc_total,
              doc, attempted, error, seen_processed, base_count,
              base_embeddings, after_complete, last_completed, partial,
              runs_started, vec_calls, vp_pc, vp_doc, vp_session, vp_error>>
vars == <<file_asset, disk, text_chunk, chunk_embedding, pc, materials, idx,
          run_total, file_id, page_num, chunk_k, batch_chunks, doc_total, doc,
          attempted, error, seen_processed, base_count, base_embeddings,
          after_complete,
          last_completed, partial, runs_started, vec_calls,
          vp_pc, vp_doc, vp_session, vp_error,
          rp_pc, rp_in, rp_doc, rp_closes, rp_status, rp_calls,
          ss_pc, ss_req, ss_model, ss_distance, ss_results, ss_status, ss_calls,
          ct_pc, ct_text, ct_size, ct_overlap, ct_start, ct_chunks, ct_out,
          wt_pc, wt_text, wt_size, wt_overlap, wt_words, wt_start, wt_out>>

\* ------------------------------------------------------------- the store
\* Rows are kept run-length encoded. process_pdf buffers, and insert_batch
\* inserts, the chunks of a page in order, so a table is a sequence of ranges
\*   [file_id, page_number, path, lo, hi]
\* each standing for the rows of the chunks lo..hi of page `page_number` of
\* the file at `path`, one row per chunk, in that order. The chunk_id of a row
\* is its position in the table (a serial). A range of chunk_embedding carries
\* the chunk_id of its first row; its rows hold the following chunk_ids.
\* `by` records which invocation of chunking.py inserted the rows, 0 for
\* vectorize_pdf; it is no column.

\* model.encode(chunk_content): the vector is a function of the text
encode(chunk) == <<"vec", chunk>>

\* the k-th chunk the segmenter returns for page p (0-based) of the file at path
ChunkContent(path, p, k) == <<path, p, k>>

Size(g) == g.hi - g.lo + 1

\* len() of a run-length encoded list
RECURSIVE Count(_)
Count(ranges) ==
    IF ranges = <<>> THEN 0 ELSE Size(Head(ranges)) + Count(Tail(ranges))

\* the first n entries of a run-length encoded list
RECURSIVE Take(_, _)
Take(ranges, n) ==
    IF n <= 0 \/ ranges = <<>> THEN <<>>
    ELSE LET g == Head(ranges)
         IN  IF Size(g) <= n
             THEN <<g>> \o Take(Tail(ranges), n - Size(g))
             ELSE <<[g EXCEPT !.hi = g.lo + n - 1]>>

\* the rows of text_chunk, one by one: chunk_id = index
RECURSIVE ChunkRows(_)
ChunkRows(tc) ==
    IF tc = <<>> THEN <<>>
    ELSE LET g == Head(tc)
         IN  [i \in 1..Size(g) |->
                [file_id |-> g.file_id, page_number |-> g.page_number,
                 chunk_text |-> ChunkContent(g.path, g.page_number - 1,
                                             g.lo + i - 1),
                 by |-> g.by]]
             \o ChunkRows(Tail(tc))

\* the rows of chunk_embedding, one by one
RECURSIVE EmbeddingRows(_)
EmbeddingRows(ce) ==
    IF ce = <<>> THEN <<>>
    ELSE LET g == Head(ce)
         IN  [i \in 1..Size(g) |->
                [chunk_id |-> g.chunk_id + i - 1,
                 embedding |-> encode(ChunkContent(g.path, g.page_number - 1,
                                                   g.lo + i - 1))]]
             \o EmbeddingRows(Tail(ce))

HasChunks(tc, f) == \E i \in 1..Len(tc) : tc[i].file_id = f

\* chunk_embedding ranges for `ranges` of tuples, the first of which got
\* chunk_id `id`
RECURSIVE WithChunkIds(_, _, _)
WithChunkIds(ranges, id, by) ==
    IF ranges = <<>> THEN <<>>
    ELSE LET g == Head(ranges)
         IN  <<[chunk_id |-> id, page_number |-> g.page_number,
                path |-> g.path, lo |-> g.lo, hi |-> g.hi, by |-> by]>>
             \o WithChunkIds(Tail(ranges), id + Size(g), by)

\* The first `stmts` INSERT statements of insert_batch's loop, in order: for
\* each tuple the text_chunk insert (RETURNING chunk_id, the next serial) and
\* then the chunk_embedding insert with that chunk_id.
ApplyStatements(tc, ce, batch, stmts, by) ==
    LET chunks == Take(batch, (stmts + 1) \div 2)
        embeddings == Take(batch, stmts \div 2)
    IN  [tc |-> tc \o [i \in 1..Len(chunks) |->
                         [file_id |-> chunks[i].file_id,
                          page_number |-> chunks[i].page_number,
                          path |-> chunks[i].path,
                          lo |-> chunks[i].lo, hi |-> chunks[i].hi,
                          by |-> by]],
         ce |-> ce \o WithChunkIds(embeddings, Count(tc) + 1, by)]

\* How many statements of a transaction over `batch` execute before the
\* database raises: none, one (a text_chunk without its embedding), two (one
\* pair, between two pairs), all but the last, or all of them (no failure).
StatementCounts(batch) ==
    {0, 1, 2, 2 * Count(batch) - 1, 2 * Count(batch)}
    \cap 0..(2 * Count(batch))

\* insert_batch without `async with conn.transaction()`: every statement
\* commits on its own
insert_batch_autocommit(tc, ce, batch, stmts, by) ==
    ApplyStatements(tc, ce, batch, stmts, by)

\* insert_batch: all statements in one transaction. `stmts` is the number of
\* statements that execute before the database raises (2 * len = none fails);
\* a failure rolls the transaction back.
insert_batch(tc, ce, batch, stmts, by) ==
    IF stmts = 2 * Count(batch)
    THEN ApplyStatements(tc, ce, batch, stmts, by)
    ELSE [tc |-> tc, ce |-> ce]

\* ------------------------------------------------------------- discovery

\* get_materials_to_process without the NOT EXISTS anti-join
Unprocessed_all(tc, f) == TRUE

\* NOT EXISTS (SELECT 1 FROM text_chunk tc WHERE tc.file_id = fa.file_id)
Unprocessed(tc, f) == ~HasChunks(tc, f)

\* the rows of the discovery query: primary, supported provider, no chunk
Discoverable(fa, tc) ==
    { f \in Files : /\ fa[f].is_primary
                    /\ fa[f].storage_provider \in {"onedrive", "local"}
                    /\ Unprocessed(tc, f) }

\* SELECT DISTINCT material_id, storage_path ... ORDER BY material_id: the
\* storage_path of file f is f, so rows are distinct; rows of one material
\* come in the order of their storage_path
RECURSIVE SortedRows(_, _)
SortedRows(fa, S) ==
    IF S = {} THEN <<>>
    ELSE LET f == CHOOSE x \in S :
                    \A y \in S :
                       \/ fa[x].material_id < fa[y].material_id
                       \/ fa[x].material_id = fa[y].material_id /\ x <= y
         IN  <<[material_id |-> fa[f].material_id, storage_path |-> f]>>
             \o SortedRows(fa, S \ {f})

get_materials_to_process(fa, tc) == SortedRows(fa, Discoverable(fa, tc))

\* the pipeline reads the file of an asset only after discovering it
Ingestible(fa, f) ==
    fa[f].is_primary /\ fa[f].storage_provider \in {"onedrive", "local"}


\* ------------------------------------------------------------ process_pdf

\* process_pdf's entry when fitz.open's exception is not caught
process_pdf_entry_raises(fa, dk, m) ==
    IF dk[m.storage_path].state = "missing" THEN "file_not_found"
    ELSE IF ~\E g \in Files : fa[g].material_id = m.material_id /\ fa[g].is_primary
         THEN "no_file_asset"
    ELSE IF dk[m.storage_path].state = "corrupt" THEN "raise"
    ELSE "opened"

\* process_pdf up to fitz.open: the three early `return 0`s, or the document
\* is open
process_pdf_entry(fa, dk, m) ==
    IF dk[m.storage_path].state = "missing" THEN "file_not_found"
    ELSE IF ~\E g \in Files : fa[g].material_id = m.material_id /\ fa[g].is_primary
         THEN "no_file_asset"
    ELSE IF dk[m.storage_path].state = "corrupt" THEN "open_error"
    ELSE "opened"

\* SELECT file_id FROM file_asset WHERE material_id = $1 AND is_primary = TRUE
\* LIMIT 1: any primary row of the material (no ORDER BY)
PrimaryRows(fa, material_id) ==
    { g \in Files : fa[g].material_id = material_id /\ fa[g].is_primary }

\* `if len(batch_chunks) > batch_size`: flushes one pair late
FlushDue_late(len) == len > batch_size

\* `if len(batch_chunks) >= batch_size`, for len = len(batch_chunks)
FlushDue(len) == len >= batch_size

\* the tuples tagged with the 0-based page_num
Buffered_zeroBased(buf, path, fid, p, k, j) ==
    IF j = 0 THEN buf
    ELSE Append(buf, [file_id |-> fid, page_number |-> p, path |-> path,
                      lo |-> k + 1, hi |-> k + j])

\* batch_chunks after the tuples (file_id, page_num + 1, chunk_content,
\* embedding_str) of the chunks k+1..k+j of page p (0-based) were appended
Buffered(buf, path, fid, p, k, j) ==
    IF j = 0 THEN buf
    ELSE Append(buf, [file_id |-> fid, page_number |-> p + 1, path |-> path,
                      lo |-> k + 1, hi |-> k + j])

\* The page loop of process_pdf from page p (0-based), k chunks of it already
\* buffered, up to the next await: the flush that is due after an append, or
\* the end of the document.
RECURSIVE PageLoop(_, _, _, _, _, _)
PageLoop(d, path, fid, p, k, buf) ==
    IF p >= Len(d)
    THEN [pc |-> "final", page_num |-> p, chunk_k |-> 0, batch_chunks |-> buf]
    ELSE IF d[p + 1].blank
    THEN PageLoop(d, path, fid, p + 1, 0, buf)
    ELSE LET n == d[p + 1].n
             due == { j \in 1..(n - k) : FlushDue(Count(buf) + j) }
         IN  IF due = {}
             THEN PageLoop(d, path, fid, p + 1, 0,
                           Buffered(buf, path, fid, p, k, n - k))
             ELSE LET j == CHOOSE x \in due : \A y \in due : x <= y
                  IN  [pc |-> "flush", page_num |-> p, chunk_k |-> k + j,
                       batch_chunks |-> Buffered(buf, path, fid, p, k, j)]

\* ------------------------------------------------------------------ main

Current(r) == materials[r][idx[r]]

Ended(r) == pc[r] \in {"done", "aborted"}

\* no process is running chunking.py
NoRunActive == \A q \in Runs : pc[q] \in {"start", "exited"}

ResetPdfLocals(r) ==
    /\ file_id' = [file_id EXCEPT ![r] = 0]
    /\ page_num' = [page_num EXCEPT ![r] = 0]
    /\ chunk_k' = [chunk_k EXCEPT ![r] = 0]
    /\ batch_chunks' = [batch_chunks EXCEPT ![r] = <<>>]
    /\ doc_total' = [doc_total EXCEPT ![r] = 0]

SetOutcome(r, outcome, chunks) ==
    attempted' = [attempted EXCEPT ![r][Len(attempted[r])] =
                    [@ EXCEPT !.outcome = outcome, !.chunks = chunks]]

\* an exception leaves process_pdf and main(): `finally: await conn.close()`
\* and the process ends; nothing closes the document
Raise(r, what) ==
    /\ pc' = [pc EXCEPT ![r] = "aborted"]
    /\ error' = [error EXCEPT ![r] = what]
    /\ SetOutcome(r, "raised", 0)
    /\ ResetPdfLocals(r)
    /\ last_completed' = FALSE
    /\ partial' = IF doc_total[r] > 0
                  THEN partial \cup {[storage_path |-> Current(r).storage_path,
                                      file_id |-> file_id[r]]}
                  ELSE partial
    /\ UNCHANGED <<materials, idx, run_total, doc, at_start>>

\* A new invocation of main(): materials = await
\* get_materials_to_process(conn); `return` when the list is empty
Discover(r) ==
    /\ LET ms == get_materials_to_process(file_asset, text_chunk)
       IN  /\ materials' = [materials EXCEPT ![r] = ms]
           /\ pc' = [pc EXCEPT ![r] = IF ms = <<>> THEN "done" ELSE "loop"]
           /\ last_completed' = IF ms = <<>> THEN TRUE ELSE last_completed
    /\ idx' = [idx EXCEPT ![r] = 1]
    /\ run_total' = [run_total EXCEPT ![r] = 0]
    /\ doc' = [doc EXCEPT ![r] = "none"]
    /\ attempted' = [attempted EXCEPT ![r] = <<>>]
    /\ error' = [error EXCEPT ![r] = "none"]
    /\ seen_processed' = [seen_processed EXCEPT ![r] =
                            { f \in Files : HasChunks(text_chunk, f) }]
    /\ base_count' = [base_count EXCEPT ![r] = Count(text_chunk)]
    /\ base_embeddings' = [base_embeddings EXCEPT ![r] = Count(chunk_embedding)]
    /\ after_complete' = [after_complete EXCEPT ![r] = last_completed]
    /\ runs_started' = runs_started + 1
    /\ UNCHANGED <<corpus, store, pdf_locals, partial, vec_calls, vectorizer>>

\* main()'s loop calls process_pdf; process_pdf up to `batch_chunks = []`
ProcessPdfOpen(r) ==
    /\ pc[r] = "loop"
    /\ idx[r] <= Len(materials[r])
    /\ LET m == Current(r)
           outcome == process_pdf_entry(file_asset, disk, m)
           entry == [material_id |-> m.material_id,
                     storage_path |-> m.storage_path,
                     outcome |-> outcome, chunks |-> 0]
       IN  /\ attempted' = [attempted EXCEPT ![r] = Append(@, entry)]
           /\ IF outcome = "opened"
              THEN /\ \E g \in PrimaryRows(file_asset, m.material_id) :
                          file_id' = [file_id EXCEPT ![r] = g]
                   /\ doc' = [doc EXCEPT ![r] = "open"]
                   /\ pc' = [pc EXCEPT ![r] = "pages"]
                   /\ UNCHANGED <<idx, error, last_completed>>
              ELSE IF outcome = "raise"
              THEN /\ pc' = [pc EXCEPT ![r] = "aborted"]
                   /\ error' = [error EXCEPT ![r] = "open"]
                   /\ last_completed' = FALSE
                   /\ UNCHANGED <<idx, file_id, doc>>
              ELSE \* return 0; total_chunks += 0; next document
                   /\ idx' = [idx EXCEPT ![r] = @ + 1]
                   /\ UNCHANGED <<pc, file_id, doc, error, last_completed>>
    /\ UNCHANGED <<corpus, store, materials, run_total, page_num, chunk_k,
                   batch_chunks, doc_total, at_start, partial, calls>>

\* process_pdf's `for page_num in range(len(doc))` up to the next flush
ProcessPages(r) ==
    /\ pc[r] = "pages"
    /\ LET m == Current(r)
           d == disk[m.storage_path].pages
           res == PageLoop(d, m.storage_path, file_id[r], page_num[r],
                           chunk_k[r], batch_chunks[r])
           extracts == \/ chunk_k[r] = 0 /\ page_num[r] < Len(d)
                       \/ res.page_num > page_num[r] /\ res.pc = "flush"
                       \/ res.pc = "final" /\ page_num[r] + 1 < Len(d)
           encodes == res.batch_chunks # batch_chunks[r]
       IN  \/ /\ pc' = [pc EXCEPT ![r] = res.pc]
              /\ page_num' = [page_num EXCEPT ![r] = res.page_num]
              /\ chunk_k' = [chunk_k EXCEPT ![r] = res.chunk_k]
              /\ batch_chunks' = [batch_chunks EXCEPT ![r] = res.batch_chunks]
              /\ UNCHANGED <<materials, idx, run_total, file_id, doc_total,
                             doc, attempted, error, at_start, history>>
           \/ \* page.get_text() raises
              /\ extracts
              /\ Raise(r, "extract")
           \/ \* model.encode(chunk_content) raises
              /\ encodes
              /\ Raise(r, "encode")
    /\ UNCHANGED <<corpus, store, calls>>

\* `await insert_batch(conn, batch_chunks)` inside the page loop, then
\* total_chunks += len(batch_chunks); batch_chunks = []
FlushBatch(r) ==
    /\ pc[r] = "flush"
    /\ \E stmts \in StatementCounts(batch_chunks[r]) :
         LET res == insert_batch(text_chunk, chunk_embedding, batch_chunks[r],
                                 stmts, r)
         IN  /\ text_chunk' = res.tc
             /\ chunk_embedding' = res.ce
             /\ IF stmts = 2 * Count(batch_chunks[r])
                THEN /\ doc_total' = [doc_total EXCEPT ![r] = @ + Count(batch_chunks[r])]
                     /\ batch_chunks' = [batch_chunks EXCEPT ![r] = <<>>]
                     /\ pc' = [pc EXCEPT ![r] = "pages"]
                     /\ UNCHANGED <<materials, idx, run_total, file_id,
                                    page_num, chunk_k, doc, attempted, error,
                                    at_start, history>>
                ELSE Raise(r, "insert")
    /\ UNCHANGED <<corpus, calls>>

\* process_pdf after the page loop: the remaining chunks, doc.close(), return
\* total_chunks; main(): total_chunks += chunks and the next document
FinishPdf(r) ==
    /\ pc[r] = "final"
    /\ \E stmts \in StatementCounts(batch_chunks[r]) :
         LET res == insert_batch(text_chunk, chunk_embedding, batch_chunks[r],
                                 stmts, r)
             total == doc_total[r] + Count(batch_chunks[r])
         IN  /\ text_chunk' = res.tc
             /\ chunk_embedding' = res.ce
             /\ IF stmts = 2 * Count(batch_chunks[r])
                THEN /\ doc' = [doc EXCEPT ![r] = "closed"]
                     /\ SetOutcome(r, "processed", total)
                     /\ run_total' = [run_total EXCEPT ![r] = @ + total]
                     /\ idx' = [idx EXCEPT ![r] = @ + 1]
                     /\ pc' = [pc EXCEPT ![r] = "loop"]
                     /\ ResetPdfLocals(r)
                     /\ UNCHANGED <<materials, error, at_start, history>>
                ELSE Raise(r, "insert")
    /\ UNCHANGED <<corpus, calls>>

\* main() after the last document: the summary, `finally: await conn.close()`
Finish(r) ==
    /\ pc[r] = "loop"
    /\ idx[r] > Len(materials[r])
    /\ pc' = [pc EXCEPT ![r] = "done"]
    /\ last_completed' = TRUE
    /\ UNCHANGED <<corpus, store, materials, idx, run_total, pdf_locals, doc,
                   attempted, error, at_start, partial, calls>>

\* asyncio.run(main()) has returned or raised: the process exits, and its
\* connection, its locals and any document it left open go with it
Exit(r) ==
    /\ Ended(r)
    /\ pc' = [pc EXCEPT ![r] = "exited"]
    /\ materials' = [materials EXCEPT ![r] = <<>>]
    /\ idx' = [idx EXCEPT ![r] = 1]
    /\ run_total' = [run_total EXCEPT ![r] = 0]
    /\ doc' = [doc EXCEPT ![r] = "none"]
    /\ attempted' = [attempted EXCEPT ![r] = <<>>]
    /\ error' = [error EXCEPT ![r] = "none"]
    /\ seen_processed' = [seen_processed EXCEPT ![r] = {}]
    /\ base_count' = [base_count EXCEPT ![r] = 0]
    /\ base_embeddings' = [base_embeddings EXCEPT ![r] = 0]
    /\ after_complete' = [after_complete EXCEPT ![r] = FALSE]
    /\ UNCHANGED <<corpus, store, pdf_locals, history, calls>>

\* ---------------------------------------------------------- vectorize_pdf

\* chunk_text of vector_pipeline.py on a page: a page holds at most
\* chunk_size words, so its words form one chunk, and none when it is blank
WordChunks(page) == IF page.blank THEN 0 ELSE 1

\* the (file_id, page_number, chunk_text, embedding) pairs vectorize_pdf
\* inserts for document d, in order
RECURSIVE VectorizePairs(_, _, _, _)
VectorizePairs(d, path, fid, p) ==
    IF p >= Len(d) THEN <<>>
    ELSE Buffered(<<>>, path, fid, p, 0, WordChunks(d[p + 1]))
         \o VectorizePairs(d, path, fid, p + 1)

\* the pairs of the first p pages of document d
PairsBefore(d, path, fid, p) == VectorizePairs(SubSeq(d, 1, p), path, fid, 0)

\* no step of vectorize_pdf raised
NoError == [step |-> "none", executed |-> 0]

\* How a call of vectorize_pdf on the file `dk` may go: the step that raises
\* and the INSERT statements executed before it. The file does not exist or
\* the model cannot be loaded (before there is a session); inside the
\* transaction ensure_pgvector or
\* fitz.open raises, get_text raises on a page, encode raises on a page with
\* chunks, an INSERT raises, or the commit at the end of the block raises.
VectorizeOutcomes(dk, path, fid) ==
    IF dk.state = "missing" THEN {[step |-> "not_found", executed |-> 0]}
    ELSE IF dk.state = "corrupt"
    THEN {[step |-> "load_model", executed |-> 0],
          [step |-> "pgvector", executed |-> 0], [step |-> "open", executed |-> 0]}
    ELSE LET d == dk.pages
             pairs == VectorizePairs(d, path, fid, 0)
             before(p) == 2 * Count(PairsBefore(d, path, fid, p - 1))
         IN  {[step |-> "load_model", executed |-> 0],
              [step |-> "pgvector", executed |-> 0]}
             \cup { [step |-> "extract", executed |-> before(p)] : p \in 1..Len(d) }
             \cup { [step |-> "encode", executed |-> before(p)] :
                      p \in { q \in 1..Len(d) : WordChunks(d[q]) > 0 } }
             \cup { [step |-> "insert", executed |-> n] :
                      n \in StatementCounts(pairs) \ {2 * Count(pairs)} }
             \cup {[step |-> "commit", executed |-> 2 * Count(pairs)],
                   [step |-> "none", executed |-> 2 * Count(pairs)]}

\* the block without a transaction: every statement executed stays
session_begin_autocommit(tc, ce, pairs, outcome) ==
    ApplyStatements(tc, ce, pairs, outcome.executed, 0)

\* `async with session.begin()`: the statements of the block are committed
\* when it ends and rolled back when it raises
session_begin(tc, ce, pairs, outcome) ==
    IF outcome.step = "none"
    THEN ApplyStatements(tc, ce, pairs, outcome.executed, 0)
    ELSE [tc |-> tc, ce |-> ce]

\* vectorize_pdf(file_id, pdf_path, session=...) up to the end of the `try`
\* block: FileNotFoundError and the loading of the model before anything
\* else, a session is created when none is passed, then everything inside
\* `async with session.begin()`
VectorizePdf(f) ==
    /\ vec_calls < MaxVectorize
    /\ vp_pc = "idle"
    /\ vec_calls' = vec_calls + 1
    /\ last_completed' = FALSE
    /\ \E outcome \in VectorizeOutcomes(disk[f], f, f) :
         LET pairs == IF IsDocument(disk[f])
                      THEN VectorizePairs(disk[f].pages, f, f, 0) ELSE <<>>
             res == session_begin(text_chunk, chunk_embedding, pairs, outcome)
         IN  /\ text_chunk' = res.tc
             /\ chunk_embedding' = res.ce
             /\ vp_error' = outcome
             /\ vp_doc' = IF outcome.step \in {"not_found", "load_model",
                                               "pgvector", "open"}
                          THEN "none" ELSE "open"
             /\ IF outcome.step \in {"not_found", "load_model"}
                THEN vp_session' = "none" /\ vp_pc' = "raised"
                ELSE /\ vp_session' \in {"passed", "created"}
                     /\ vp_pc' = "finally"
    /\ UNCHANGED <<corpus, locals, partial, runs_started>>

\* `finally`: doc.close() unless doc is None, session.close() when the
\* session was created here; then the summary is returned or the exception
\* goes on
VectorizeFinally ==
    /\ vp_pc = "finally"
    /\ vp_doc' = IF vp_doc = "none" THEN "none" ELSE "closed"
    /\ vp_session' = IF vp_session = "created" THEN "closed" ELSE vp_session
    /\ vp_pc' = IF vp_error.step = "none" THEN "returned" ELSE "raised"
    /\ UNCHANGED <<corpus, store, locals, history, runs_started, vec_calls,
                   vp_error>>

\* the summary has been returned, or the exception has reached the caller:
\* the call is over and its locals are gone
VectorizeReturn ==
    /\ vp_pc \in {"returned", "raised"}
    /\ vp_pc' = "idle"
    /\ vp_doc' = "none"
    /\ vp_session' = "none"
    /\ vp_error' = NoError
    /\ UNCHANGED <<corpus, store, locals, history, runs_started, vec_calls>>

\* ----------------------------------------------------------- get_pdf_page

\* `if doc` / `if not doc` on an open fitz.Document: the class defines
\* __len__ (its page count) and no __bool__, so a document is true iff it
\* has a page; None is false
Truthy(handle, pages) == handle = "open" /\ pages > 0

\* What `if doc` does on a closed fitz.Document, whose __len__ is the library's
\* business: it raises, or it yields False or True.
ClosedTruth == {"raises", "false", "true"}

Accessible_any(in) == TRUE
\* `if not is_accessible` lets the request pass
Accessible(in) == in.is_accessible

BucketMissing_never(in) == FALSE
\* `if not storage_bucket`
BucketMissing(in) == ~in.storage_bucket

\* the calls get_pdf_page makes outside itself are recorded in rp_calls
Called(what) == rp_calls' = rp_calls \cup what

\* touching the stored file: storage client, filesystem, PyMuPDF
StorageCalls == {"download", "exists", "open", "render"}

RaiseHTTP(status) ==
    /\ rp_status' = status
    /\ rp_pc' = "except_http"

Respond(status) ==
    /\ rp_status' = status
    /\ rp_pc' = "responded"

\* get_pdf_page: the file_asset query, which may raise; 404 without a row,
\* 403 when the row is not accessible
Lookup ==
    /\ rp_pc = "lookup"
    /\ \/ \* session.execute raises
          /\ Called({"execute"})
          /\ rp_pc' = "except_other"
          /\ UNCHANGED rp_status
       \/ /\ Called({"execute", "fetchone"})
          /\ IF rp_in.file_info = "none" THEN RaiseHTTP(404)
             ELSE IF ~Accessible(rp_in) THEN RaiseHTTP(403)
             ELSE rp_pc' = "fetch" /\ UNCHANGED rp_status
    /\ UNCHANGED <<rp_in, rp_doc, rp_closes, pipeline, search, segmenter, splitter>>

\* the supabase branch: the client and the bucket are checked, then download
\* and fitz.open(stream=...) inside try/except Exception
FetchRemote ==
    /\ rp_pc = "fetch"
    /\ rp_in.storage_provider = "supabase"
    /\ IF ~rp_in.supabase_client \/ BucketMissing(rp_in)
       THEN RaiseHTTP(500) /\ UNCHANGED <<rp_doc, rp_calls>>
       ELSE \/ \* download raises
               RaiseHTTP(500) /\ Called({"download"}) /\ UNCHANGED rp_doc
            \/ \* fitz.open(stream=file_bytes) raises
               RaiseHTTP(500) /\ Called({"download", "open"}) /\ UNCHANGED rp_doc
            \/ /\ rp_doc' = "open"
               /\ Called({"download", "open"})
               /\ rp_pc' = "check"
               /\ UNCHANGED rp_status
    /\ UNCHANGED <<rp_in, rp_closes, pipeline, search, segmenter, splitter>>

\* the local branch: 404 when the path does not exist, else fitz.open(pdf_path)
FetchLocal ==
    /\ rp_pc = "fetch"
    /\ rp_in.storage_provider # "supabase"
    /\ \/ \* not pdf_path.exists()
          RaiseHTTP(404) /\ Called({"exists"}) /\ UNCHANGED rp_doc
       \/ \* fitz.open raises
          /\ rp_pc' = "except_other"
          /\ Called({"exists", "open"})
          /\ UNCHANGED <<rp_doc, rp_status>>
       \/ /\ rp_doc' = "open"
          /\ Called({"exists", "open"})
          /\ rp_pc' = "check"
          /\ UNCHANGED rp_status
    /\ UNCHANGED <<rp_in, rp_closes, pipeline, search, segmenter, splitter>>

\* `if not doc: raise 500`, then the page range: doc.close() and 404
Check ==
    /\ rp_pc = "check"
    /\ IF ~Truthy(rp_doc, rp_in.pages)
       THEN RaiseHTTP(500) /\ UNCHANGED <<rp_doc, rp_closes, rp_calls>>
       ELSE IF rp_in.page_num < 1 \/ rp_in.page_num > rp_in.pages
       THEN /\ rp_doc' = "closed"
            /\ rp_closes' = rp_closes + 1
            /\ Called({"range"})
            /\ RaiseHTTP(404)
       ELSE /\ rp_pc' = "render"
            /\ Called({"range"})
            /\ UNCHANGED <<rp_doc, rp_closes, rp_status>>
    /\ UNCHANGED <<rp_in, pipeline, search, segmenter, splitter>>

\* doc[page_num - 1], get_pixmap, tobytes, doc.close(), return the image
Render ==
    /\ rp_pc = "render"
    /\ Called({"render"})
    /\ \/ \* rasterizing raises
          /\ rp_pc' = "except_other"
          /\ UNCHANGED <<rp_doc, rp_closes, rp_status>>
       \/ /\ rp_doc' = "closed"
          /\ rp_closes' = rp_closes + 1
          /\ Respond(200)
    /\ UNCHANGED <<rp_in, pipeline, search, segmenter, splitter>>

\* `if doc: doc.close()`, then the status the except clause raises; an
\* exception raised by the clause itself leaves as a 500
CloseIfDoc(status) ==
    IF rp_doc = "closed"
    THEN \E truth \in ClosedTruth :
            IF truth = "raises" THEN Respond(500) /\ UNCHANGED <<rp_doc, rp_closes>>
            ELSE IF truth = "false" THEN Respond(status) /\ UNCHANGED <<rp_doc, rp_closes>>
            ELSE /\ rp_closes' = rp_closes + 1
                 /\ UNCHANGED rp_doc
                 /\ \E again \in {"raises", "ignored"} :
                        Respond(IF again = "raises" THEN 500 ELSE status)
    ELSE IF Truthy(rp_doc, rp_in.pages)
    THEN /\ rp_doc' = "closed"
         /\ rp_closes' = rp_closes + 1
         /\ Respond(status)
    ELSE Respond(status) /\ UNCHANGED <<rp_doc, rp_closes>>

\* the cleanup of both except clauses; `if doc` on a document that was closed
\* calls the __len__ of the closed document
Cleanup(status) ==
    /\ Called(IF rp_doc = "closed" THEN {"closed.__len__"} ELSE {})
    /\ CloseIfDoc(status)

\* except HTTPException: if doc: doc.close(); raise
HandleHTTPException ==
    /\ rp_pc = "except_http"
    /\ Cleanup(rp_status)
    /\ UNCHANGED <<rp_in, pipeline, search, segmenter, splitter>>

\* except Exception as e: if doc: doc.close(); raise HTTPException(500)
HandleException ==
    /\ rp_pc = "except_other"
    /\ Cleanup(500)
    /\ UNCHANGED <<rp_in, pipeline, search, segmenter, splitter>>

\* -------------------------------------------------------- semantic_search

Materials == 1..NumMaterials
Chunks == 1..NumChunks
TopicNames == {"ai", "ml"}

\* an Optional value: {} is None, {v} is the value v
None == {}
Some(S) == { {v} : v \in S }
Value(opt) == CHOOSE v \in opt : TRUE

\* the material a chunk belongs to through text_chunk and file_asset
MaterialOfChunk(c) == ((c - 1) % NumMaterials) + 1

\* fa.is_primary of the file_asset row a chunk is joined to through
\* tc.file_id: the last chunk is attached to an asset that is not primary, as
\* vectorize_pdf(file_id, pdf_path) stores chunks for whichever file_id it is
\* given
PrimaryOfChunk(c) == c # NumChunks

\* material.year, NULL for the last material
YearOf(m) == IF m = NumMaterials THEN None ELSE {(m - 1) % (MaxYear + 1)}

\* the topic names material_topic and topic give a material
TopicsOf(m) == IF m = 1 THEN {"ai"} ELSE IF m = 2 THEN {} ELSE TopicNames

\* `if request.topic`, `if request.year_min`, `if request.year_max`: Python
\* truth of an Optional[str] and of an Optional[int]
GivenText(opt) == opt # None /\ opt # {""}

GivenNumber(opt) == opt # None /\ opt # {0}

\* t.topic_name = :topic, through the two joins added with it
TopicMatches(c, topic) == Value(topic) \in TopicsOf(MaterialOfChunk(c))

\* m.year >= :year_min and m.year <= :year_max; a NULL year satisfies neither
YearAtLeast(c, y) ==
    LET year == YearOf(MaterialOfChunk(c))
    IN  year # None /\ Value(year) >= Value(y)

YearAtMost(c, y) ==
    LET year == YearOf(MaterialOfChunk(c))
    IN  year # None /\ Value(year) <= Value(y)

\* the rows of the joins that pass the WHERE clauses the request adds
Matching(req) ==
    { c \in Chunks :
        /\ GivenText(req.topic) => TopicMatches(c, req.topic)
        /\ GivenNumber(req.year_min) => YearAtLeast(c, req.year_min)
        /\ GivenNumber(req.year_max) => YearAtMost(c, req.year_max) }

OrderBy_desc(dist, a, b) == dist[a] >= dist[b]
\* ORDER BY ce.embedding <=> :embedding::vector
OrderBy(dist, a, b) == dist[a] <= dist[b]

Min(a, b) == IF a <= b THEN a ELSE b

\* what ORDER BY ... LIMIT :limit may return for the rows S: the first rows
\* of any ordering of S by distance, rows at equal distance in any order
Ranked(S, dist, limit) ==
    LET k == Min(limit, Cardinality(S))
    IN  { seq \in [1..k -> S] :
            /\ \A i, j \in 1..k : i < j => seq[i] # seq[j] /\ OrderBy(dist, seq[i], seq[j])
            /\ \A c \in S : (\A i \in 1..k : seq[i] # c)
                               => \A i \in 1..k : OrderBy(dist, seq[i], c) }

\* 1 - (ce.embedding <=> :embedding::vector) AS similarity
Similarity(dist, c) == 1 - dist[c]

\* the "results" list built from the rows
ResultList(seq, dist) ==
    [i \in 1..Len(seq) |->
        [chunk_id |-> seq[i], material_id |-> MaterialOfChunk(seq[i]),
         similarity |-> Similarity(dist, seq[i])]]

ModelLoaded_assumed(loaded) == TRUE
\* `if not embedding_model`
ModelLoaded(loaded) == loaded

\* semantic_search up to the session: 503 when the model is not loaded
CheckModel ==
    /\ ss_pc = "request"
    /\ IF ModelLoaded(ss_model)
       THEN ss_pc' = "encode" /\ UNCHANGED ss_status
       ELSE ss_pc' = "responded" /\ ss_status' = 503
    /\ UNCHANGED <<ss_req, ss_model, ss_distance, ss_results, ss_calls,
                   pipeline, resolver, segmenter, splitter>>

\* embedding_model.encode(request.query), which raises when there is no
\* model; an exception becomes the 500 of `except Exception`
Encode ==
    /\ ss_pc = "encode"
    /\ ss_calls' = ss_calls \cup {"encode"}
    /\ \/ /\ ss_model
          /\ ss_pc' = "query"
          /\ UNCHANGED ss_status
       \/ /\ ss_pc' = "responded"
          /\ ss_status' = 500
    /\ UNCHANGED <<ss_req, ss_model, ss_distance, ss_results, pipeline, resolver, segmenter, splitter>>

\* the SQL is built and executed; the rows become the results
Query ==
    /\ ss_pc = "query"
    /\ ss_calls' = ss_calls \cup {"execute"}
    /\ ss_pc' = "responded"
    /\ \/ \* session.execute raises
          /\ ss_status' = 500
          /\ UNCHANGED ss_results
       \/ \E seq \in Ranked(Matching(ss_req), ss_distance, ss_req.limit) :
            /\ ss_results' = ResultList(seq, ss_distance)
            /\ ss_status' = 200
    /\ UNCHANGED <<ss_req, ss_model, ss_distance, pipeline, resolver, segmenter, splitter>>

\* ------------------------------------------------- chunk_text (chunking.py)

\* A text is a sequence of runs [ch, n]: n >= 1 times the character ch, no
\* two neighbouring runs of the same character. Positions count from 0.
Whitespace == {" ", "\n"}
Control == {"\\0"}
Characters == {"a", "."} \cup Whitespace \cup Control

RECURSIVE TextLen(_)
TextLen(t) == IF t = <<>> THEN 0 ELSE Head(t).n + TextLen(Tail(t))

\* the positions [RunStart, RunEnd) of run i
RunStart(t, i) == TextLen(SubSeq(t, 1, i - 1))
RunEnd(t, i) == RunStart(t, i) + t[i].n

Max(a, b) == IF a >= b THEN a ELSE b
Greatest(S) == CHOOSE x \in S : \A y \in S : y <= x
Least(S) == CHOOSE x \in S : \A y \in S : x <= y

\* the runs with a character of `class` that reach into [from, to)
RunsIn(t, class, from, to) ==
    { i \in 1..Len(t) :
        /\ t[i].ch \in class
        /\ Max(from, RunStart(t, i)) < Min(to, RunEnd(t, i)) }

\* runs joined where neighbours hold the same character
RECURSIVE Joined(_)
Joined(t) ==
    IF Len(t) < 2 THEN t
    ELSE IF t[1].ch = t[2].ch
    THEN Joined(<<[ch |-> t[1].ch, n |-> t[1].n + t[2].n]>> \o SubSeq(t, 3, Len(t)))
    ELSE <<t[1]>> \o Joined(Tail(t))

\* text[from:to]
Slice(t, from, to) ==
    LET keep == RunsIn(t, Characters, from, to)
        cut(i) == [ch |-> t[i].ch,
                   n |-> Min(to, RunEnd(t, i)) - Max(from, RunStart(t, i))]
    IN  IF keep = {} THEN <<>>
        ELSE [k \in 1..Cardinality(keep) |-> cut(Least(keep) + k - 1)]

\* the span [lo, hi) that text[from:to].strip() keeps; lo = hi when nothing
Stripped(t, from, to) ==
    LET solid == RunsIn(t, Characters \ Whitespace, from, to)
    IN  IF solid = {} THEN [lo |-> from, hi |-> from]
        ELSE [lo |-> Max(from, RunStart(t, Least(solid))),
              hi |-> Min(to, RunEnd(t, Greatest(solid)))]

\* clean_text: control characters other than newline and tab are dropped,
\* then strip()
clean_text(t) ==
    LET kept == SelectSeq(t, LAMBDA run : run.ch \notin Control)
        text == Joined(kept)
        span == Stripped(text, 0, TextLen(text))
    IN  Slice(text, span.lo, span.hi)

\* text[from:to].rfind(ch): the index within the slice, -1 when absent
rfind(t, ch, from, to) ==
    LET found == RunsIn(t, {ch}, from, to)
    IN  IF found = {} THEN -1
        ELSE Min(to, RunEnd(t, Greatest(found))) - 1 - from

\* `if break_point > chunk_size * 0.5`
SnapDue(break_point, size) == 2 * break_point > size

\* the position a slice bound i denotes in a text of `length` characters: a
\* negative bound counts from the end, and bounds are clamped to the text
SliceIndex(i, length) ==
    IF i < 0 THEN Max(i + length, 0) ELSE Min(i, length)

\* one pass of the while loop for the window at `start`: the cut `end`, moved
\* back to a sentence boundary where due, and the span of the trimmed chunk
Window(t, start, size) ==
    LET length == TextLen(t)
        raw == start + size
        from == SliceIndex(start, length)
        to == SliceIndex(raw, length)
        break_point == Max(rfind(t, ".", from, to), rfind(t, "\n", from, to))
        snapped == raw < length /\ SnapDue(break_point, size)
        end == IF snapped THEN start + break_point + 1 ELSE raw
        span == Stripped(t, from, IF snapped THEN from + break_point + 1 ELSE to)
    IN  [start |-> start, end |-> end, snapped |-> snapped,
         break_point |-> IF raw < length THEN break_point ELSE -1,
         lo |-> span.lo, hi |-> span.hi]

NextStart_noOverlap(end, overlap) == end
\* start = end - overlap
NextStart(end, overlap) == end - overlap

\* `if len(c) > 50` of the list returned
Kept(chunk) == chunk.hi - chunk.lo > 50

\* chunk_text is called: text_content = clean_text(text_content), chunks = [],
\* start = 0
CleanText ==
    /\ ct_pc = "call"
    /\ ct_text' = clean_text(ct_text)
    /\ ct_start' = 0
    /\ ct_chunks' = <<>>
    /\ ct_pc' = "loop"
    /\ UNCHANGED <<ct_size, ct_overlap, ct_out, pipeline, resolver, search, splitter>>

\* one iteration of `while start < text_length`
NextWindow ==
    /\ ct_pc = "loop"
    /\ ct_start < TextLen(ct_text)
    /\ Len(ct_chunks) < MaxWindows
    /\ LET w == Window(ct_text, ct_start, ct_size)
       IN  /\ ct_chunks' = Append(ct_chunks, w)
           /\ ct_start' = NextStart(w.end, ct_overlap)
    /\ UNCHANGED <<ct_pc, ct_text, ct_size, ct_overlap, ct_out, pipeline,
                   resolver, search, splitter>>

\* the loop ends: return [c for c in chunks if len(c) > 50]
ReturnChunks ==
    /\ ct_pc = "loop"
    /\ ct_start >= TextLen(ct_text)
    /\ ct_out' = SelectSeq(ct_chunks, Kept)
    /\ ct_pc' = "done"
    /\ UNCHANGED <<ct_text, ct_size, ct_overlap, ct_start, ct_chunks, pipeline,
                   resolver, search, splitter>>

\* ---------------------------------------- chunk_text (vector_pipeline.py)

\* text.split(): the maximal runs of characters that are not whitespace, in
\* order; `cur` is the word being read
RECURSIVE SplitFrom(_, _, _)
SplitFrom(t, cur, acc) ==
    IF t = <<>> THEN (IF cur = <<>> THEN acc ELSE Append(acc, cur))
    ELSE IF Head(t) \in Whitespace
    THEN SplitFrom(Tail(t), <<>>, IF cur = <<>> THEN acc ELSE Append(acc, cur))
    ELSE SplitFrom(Tail(t), Append(cur, Head(t)), acc)

split(t) == SplitFrom(t, <<>>, <<>>)

\* " ".join(chunk_words)
RECURSIVE join(_)
join(ws) ==
    IF ws = <<>> THEN <<>>
    ELSE IF Len(ws) = 1 THEN ws[1]
    ELSE ws[1] \o <<" ">> \o join(Tail(ws))

\* stride = max(chunk_size - overlap, 1)
stride(size, overlap) == Max(size - overlap, 1)

\* words[start : start + chunk_size]
chunk_words(ws, start, size) == SubSeq(ws, start + 1, Min(start + size, Len(ws)))

\* chunk_text is called and runs to its first yield: words = text.split(),
\* `return []` when there is none
SplitWords ==
    /\ wt_pc = "call"
    /\ wt_words' = split(wt_text)
    /\ wt_start' = 0
    /\ wt_pc' = IF split(wt_text) = <<>> THEN "done" ELSE "loop"
    /\ UNCHANGED <<wt_text, wt_size, wt_overlap, wt_out, pipeline, resolver,
                   search, segmenter>>

\* one iteration of `for start in range(0, len(words), stride)`: the chunk is
\* yielded when it holds a word
YieldChunk ==
    /\ wt_pc = "loop"
    /\ wt_start < Len(wt_words)
    /\ LET chunk == chunk_words(wt_words, wt_start, wt_size)
       IN  wt_out' = IF chunk # <<>>
                     THEN Append(wt_out, [start |-> wt_start, text |-> join(chunk)])
                     ELSE wt_out
    /\ wt_start' = wt_start + stride(wt_size, wt_overlap)
    /\ UNCHANGED <<wt_pc, wt_text, wt_size, wt_overlap, wt_words, pipeline,
                   resolver, search, segmenter>>

\* the range is exhausted: the generator ends
Exhausted ==
    /\ wt_pc = "loop"
    /\ wt_start >= Len(wt_words)
    /\ wt_pc' = "done"
    /\ UNCHANGED <<wt_text, wt_size, wt_overlap, wt_words, wt_start, wt_out,
                   pipeline, resolver, search, segmenter>>

\* ------------------------------------------------------- specifications

AssetRows ==
    [material_id : 1..NumFiles, is_primary : BOOLEAN,
     storage_provider : Providers]

InitCorpus ==
    /\ file_asset \in [Files -> AssetRows]
    /\ disk \in [Files -> DiskStates]
    /\ \A f \in Files :
         /\ file_asset[f].material_id = MaterialOf(f)
         \* a file the pipeline never reads is a small document
         /\ ~Ingestible(file_asset, f) => disk[f] = OnDisk(SmallDoc)
         /\ ~file_asset[f].is_primary => file_asset[f].storage_provider = "local"

InitRuns ==
    /\ pc = [r \in Runs |-> "start"]
    /\ materials = [r \in Runs |-> <<>>]
    /\ idx = [r \in Runs |-> 1]
    /\ run_total = [r \in Runs |-> 0]
    /\ file_id = [r \in Runs |-> 0]
    /\ page_num = [r \in Runs |-> 0]
    /\ chunk_k = [r \in Runs |-> 0]
    /\ batch_chunks = [r \in Runs |-> <<>>]
    /\ doc_total = [r \in Runs |-> 0]
    /\ doc = [r \in Runs |-> "none"]
    /\ attempted = [r \in Runs |-> <<>>]
    /\ error = [r \in Runs |-> "none"]
    /\ seen_processed = [r \in Runs |-> {}]
    /\ base_count = [r \in Runs |-> 0]
    /\ base_embeddings = [r \in Runs |-> 0]
    /\ after_complete = [r \in Runs |-> FALSE]
    /\ last_completed = FALSE
    /\ partial = {}
    /\ text_chunk = <<>>
    /\ chunk_embedding = <<>>
    /\ runs_started = 0
    /\ vec_calls = 0
    /\ vp_pc = "idle"
    /\ vp_doc = "none"
    /\ vp_session = "none"
    /\ vp_error = NoError

\* the primary file_asset row get_pdf_page finds for the material, if any
FileInfos ==
    {[file_info |-> "none", storage_provider |-> "local",
      storage_bucket |-> FALSE, is_accessible |-> FALSE]}
    \cup [file_info : {"row"}, storage_provider : {"supabase", "onedrive"},
          storage_bucket : BOOLEAN, is_accessible : BOOLEAN]

\* a request: page_num, the row, whether supabase_client is configured, and
\* the page count of the stored PDF
Requests ==
    { [page_num |-> n, file_info |-> i.file_info,
       storage_provider |-> i.storage_provider,
       storage_bucket |-> i.storage_bucket, is_accessible |-> i.is_accessible,
       supabase_client |-> c, pages |-> p] :
         n \in 0..(MaxDocPages + 1), i \in FileInfos, c \in BOOLEAN,
         p \in 0..MaxDocPages }

NoRequest ==
    /\ rp_pc = "idle"
    /\ rp_in = CHOOSE q \in Requests : q.file_info = "none" /\ q.page_num = 0
                                       /\ ~q.supabase_client /\ q.pages = 0
    /\ rp_doc = "none"
    /\ rp_closes = 0
    /\ rp_status = 0
    /\ rp_calls = {}

\* no search request is under way
NoSearch ==
    /\ ss_pc = "idle"
    /\ ss_req = [topic |-> None, year_min |-> None, year_max |-> None, limit |-> 0]
    /\ ss_model = FALSE
    /\ ss_distance = [c \in Chunks |-> 0]
    /\ ss_results = <<>>
    /\ ss_status = 0
    /\ ss_calls = {}

\* chunk_text is not being called
NoSegmenter ==
    /\ ct_pc = "idle"
    /\ ct_text = <<>>
    /\ ct_size = 500
    /\ ct_overlap = 50
    /\ ct_start = 0
    /\ ct_chunks = <<>>
    /\ ct_out = <<>>

\* the word-based chunk_text is not being called
NoSplitter ==
    /\ wt_pc = "idle"
    /\ wt_text = <<>>
    /\ wt_size = 500
    /\ wt_overlap = 50
    /\ wt_words = <<>>
    /\ wt_start = 0
    /\ wt_out = <<>>

Init ==
    /\ InitCorpus
    /\ InitRuns
    /\ NoRequest
    /\ NoSearch
    /\ NoSegmenter
    /\ NoSplitter

Step(r) ==
    /\ \/ ProcessPdfOpen(r)
       \/ ProcessPages(r)
       \/ FlushBatch(r)
       \/ FinishPdf(r)
       \/ Finish(r)
       \/ Exit(r)
    /\ UNCHANGED <<resolver, search, segmenter, splitter>>

\* invocations one after the other all run as the first process
Sequential == CHOOSE r \in Runs : \A q \in Runs : r <= q

\* chunking.py is invoked (again) once no invocation is under way
StartRun ==
    /\ NoRunActive
    /\ vp_pc = "idle"
    /\ runs_started + vec_calls < MaxRuns
    /\ Discover(Sequential)
    /\ UNCHANGED <<resolver, search, segmenter, splitter>>

\* a call of vectorize_pdf between two runs
Vectorize(f) ==
    /\ NoRunActive
    /\ runs_started + vec_calls < MaxRuns
    /\ VectorizePdf(f)
    /\ UNCHANGED <<resolver, search, segmenter, splitter>>

\* the call of vectorize_pdf ends
EndVectorize ==
    /\ VectorizeFinally \/ VectorizeReturn
    /\ UNCHANGED <<resolver, search, segmenter, splitter>>

\* invocations of chunking.py one after the other, and calls of vectorize_pdf
\* between them
Next ==
    \/ StartRun
    \/ \E r \in Runs : Step(r)
    \/ \E f \in Files : Vectorize(f)
    \/ EndVectorize

Spec == Init /\ [][Next]_vars

\* an invocation of chunking.py that starts while others may be under way;
\* invocations are numbered in the order they start
StartConcurrent(r) ==
    /\ pc[r] = "start"
    /\ \A q \in Runs : q < r => pc[q] # "start"
    /\ Discover(r)
    /\ UNCHANGED <<resolver, search, segmenter, splitter>>

\* every process runs chunking.py once, against the same database
NextConcurrent ==
    \/ \E r \in Runs : StartConcurrent(r)
    \/ \E r \in Runs : Step(r)

SpecConcurrent == Init /\ [][NextConcurrent]_vars

\* one request GET /api/pdf/{material_id}/page/{page_num}; the pipeline is
\* not running and its tables play no part
InitPage ==
    /\ file_asset = [f \in Files |->
                       [material_id |-> MaterialOf(f), is_primary |-> TRUE,
                        storage_provider |-> "local"]]
    /\ disk = [f \in Files |-> OnDisk(SmallDoc)]
    /\ InitRuns
    /\ rp_pc = "lookup"
    /\ rp_in \in Requests
    /\ rp_doc = "none"
    /\ rp_closes = 0
    /\ rp_status = 0
    /\ rp_calls = {}
    /\ NoSearch
    /\ NoSegmenter
    /\ NoSplitter

NextPage ==
    \/ Lookup
    \/ FetchRemote
    \/ FetchLocal
    \/ Check
    \/ Render
    \/ HandleHTTPException
    \/ HandleException

SpecPage == InitPage /\ [][NextPage]_vars

\* the pipeline's tables at rest
IdlePipeline ==
    /\ file_asset = [f \in Files |->
                       [material_id |-> MaterialOf(f), is_primary |-> TRUE,
                        storage_provider |-> "local"]]
    /\ disk = [f \in Files |-> OnDisk(SmallDoc)]
    /\ InitRuns

SearchRequests ==
    [topic : {None} \cup Some(TopicNames \cup {""}),
     year_min : {None} \cup Some(0..MaxYear),
     year_max : {None} \cup Some(0..MaxYear),
     limit : 0..MaxLimit]

\* one request POST /api/search/semantic against some embedded chunks
InitSearch ==
    /\ IdlePipeline
    /\ NoRequest
    /\ ss_pc = "request"
    /\ ss_req \in SearchRequests
    /\ ss_model \in BOOLEAN
    /\ ss_distance \in [Chunks -> 0..MaxDistance]
    /\ ss_results = <<>>
    /\ ss_status = 0
    /\ ss_calls = {}
    /\ NoSegmenter
    /\ NoSplitter

NextSearch ==
    \/ CheckModel
    \/ Encode
    \/ Query

SpecSearch == InitSearch /\ [][NextSearch]_vars

\* the lengths of the runs of a text: a character, the overlap, a window less
\* the overlap
RunLengths == {1, 50, 450}

\* the texts of at most MaxSegments runs
Texts ==
    UNION { { t \in [1..k -> [ch : Characters, n : RunLengths]] :
                \A i \in 1..(k - 1) : t[i].ch # t[i + 1].ch } :
            k \in 0..MaxSegments }

\* the (chunk_size, overlap) pairs chunk_text is called with: the defaults,
\* as process_pdf calls it, and two pairs with 0 <= overlap < chunk_size whose
\* overlap is more than half of chunk_size
Parameters == {<<500, 50>>, <<100, 60>>, <<90, 51>>}

\* one call chunk_text(text_content, chunk_size, overlap)
InitSegmenter ==
    /\ IdlePipeline
    /\ NoRequest
    /\ NoSearch
    /\ NoSplitter
    /\ ct_pc = "call"
    /\ ct_text \in Texts
    /\ \E pair \in Parameters : ct_size = pair[1] /\ ct_overlap = pair[2]
    /\ ct_start = 0
    /\ ct_chunks = <<>>
    /\ ct_out = <<>>

NextSegmenter ==
    \/ CleanText
    \/ NextWindow
    \/ ReturnChunks

SpecSegmenter == InitSegmenter /\ [][NextSegmenter]_vars

\* the texts of at most MaxTextLen characters given to the word-based
\* chunk_text
WordTexts ==
    UNION { [1..k -> {"a", "b", " "}] : k \in 0..MaxTextLen }

\* the (chunk_size, overlap) pairs the word-based chunk_text is called with
WordParameters == {<<3, 2>>, <<2, 1>>, <<2, 0>>}

\* one call chunk_text(text, chunk_size, overlap) of vector_pipeline.py,
\* consumed to its end as list() does
InitWords ==
    /\ IdlePipeline
    /\ NoRequest
    /\ NoSearch
    /\ NoSegmenter
    /\ wt_pc = "call"
    /\ wt_text \in WordTexts
    /\ \E pair \in WordParameters : wt_size = pair[1] /\ wt_overlap = pair[2]
    /\ wt_words = <<>>
    /\ wt_start = 0
    /\ wt_out = <<>>

NextWords ==
    \/ SplitWords
    \/ YieldChunk
    \/ Exhausted

SpecWords == InitWords /\ [][NextWords]_vars

\* a corpus in which every file is a primary local asset of material 1
InitShared ==
    /\ file_asset = [f \in Files |->
                       [material_id |-> 1, is_primary |-> TRUE,
                        storage_provider |-> "local"]]
    /\ disk \in [Files -> DiskStates]
    /\ InitRuns
    /\ NoRequest
    /\ NoSearch
    /\ NoSegmenter
    /\ NoSplitter

\* the invocations of chunking.py and the calls of vectorize_pdf on it
SpecShared == InitShared /\ [][Next]_vars

\* ------------------------------------------------------------ properties

\* the data model's assumption: every material has exactly one primary asset
OnePrimaryPerMaterial ==
    \A f \in Files :
        Cardinality(PrimaryRows(file_asset, file_asset[f].material_id)) = 1

\* a run-length encoded list without its first n entries
RECURSIVE Drop(_, _)
Drop(ranges, n) ==
    IF ranges = <<>> \/ n <= 0 THEN ranges
    ELSE LET g == Head(ranges)
         IN  IF Size(g) <= n THEN Drop(Tail(ranges), n - Size(g))
             ELSE <<[g EXCEPT !.lo = g.lo + n]>> \o Tail(ranges)

Range(seq) == { seq[i] : i \in 1..Len(seq) }

\* the text_chunk / chunk_embedding rows invocation r inserted since its
\* discovery query
NewChunks(r) == { g \in Range(Drop(text_chunk, base_count[r])) : g.by = r }
NewEmbeddings(r) ==
    { g \in Range(Drop(chunk_embedding, base_embeddings[r])) : g.by = r }

Skipped(entry) ==
    entry.outcome \in {"file_not_found", "no_file_asset", "open_error"}

\* C1: with exactly one primary FileAsset per Material, a FileAsset that had a
\* TextChunk when a run made its discovery query is not among the documents
\* the run discovered, and the run inserts no text_chunk row for it and no
\* chunk_embedding row for one of its chunks.
C1_ProcessedNeverReprocessed ==
    OnePrimaryPerMaterial =>
        \A r \in Runs :
            /\ \A i \in 1..Len(materials[r]) :
                   materials[r][i].storage_path \notin seen_processed[r]
            /\ \A g \in NewChunks(r) : g.file_id \notin seen_processed[r]
            /\ \A g \in NewEmbeddings(r) : g.chunk_id > base_count[r]

\* C1 witness: a run that started when a primary, supported asset already had
\* chunks has ended after inserting rows for another asset.
C1_Witness ==
    /\ OnePrimaryPerMaterial
    /\ \E r \in Runs :
          /\ pc[r] = "done"
          /\ \E f \in seen_processed[r] : Ingestible(file_asset, f)
          /\ NewChunks(r) # {}

\* the last chunk_id the rows of a chunk_embedding range refer to
LastChunkId(g) == g.chunk_id + Size(g) - 1

\* C2: in every committed state each text_chunk row has exactly one
\* chunk_embedding row and each chunk_embedding row refers to a stored
\* text_chunk row: the chunk_ids of chunk_embedding are distinct, lie within
\* the chunk_ids of text_chunk, and are as many.
C2_NoOrphans ==
    /\ \A i \in 1..Len(chunk_embedding) :
           /\ chunk_embedding[i].chunk_id >= 1
           /\ LastChunkId(chunk_embedding[i]) <= Count(text_chunk)
    /\ \A i, j \in 1..Len(chunk_embedding) :
           i < j => \/ LastChunkId(chunk_embedding[i]) < chunk_embedding[j].chunk_id
                    \/ LastChunkId(chunk_embedding[j]) < chunk_embedding[i].chunk_id
    /\ Count(chunk_embedding) = Count(text_chunk)

\* C2 witness: insert_batch failed in a document of which an earlier group is
\* committed, and vectorize_pdf has stored rows too.
C2_Witness ==
    /\ \E r \in Runs : error[r] = "insert" /\ NewChunks(r) # {}
    /\ \E i \in 1..Len(text_chunk) : text_chunk[i].by = 0

\* C3: a failure confined to one document never aborts the run.
C3_FailureIsolated == \A r \in Runs : error[r] # "none" => pc[r] # "aborted"

\* C4: no FileAsset has text_chunk rows inserted by two runs.
C4_NoDoubleInsert ==
    \A f \in Files :
        \A i, j \in 1..Len(text_chunk) :
            (/\ text_chunk[i].file_id = f /\ text_chunk[j].file_id = f
             /\ text_chunk[i].by \in Runs /\ text_chunk[j].by \in Runs)
            => text_chunk[i].by = text_chunk[j].by

\* C5 as claimed: the discovery of a run that follows a completed run returns
\* nothing, also when the corpus holds assets that are missing, cannot be
\* opened or yield no chunks.
C5_SecondRunDiscoversNothing ==
    \A r \in Runs : after_complete[r] => materials[r] = <<>>

\* C5 amended: with exactly one primary FileAsset per Material, a run that
\* follows a completed run over the unmodified corpus inserts no row and
\* counts no chunk; what it discovers again are assets without a TextChunk,
\* and each of them again yields zero chunks.
C5_SecondRunStoresNothing ==
    OnePrimaryPerMaterial =>
        \A r \in Runs :
            after_complete[r] =>
                /\ NewChunks(r) = {}
                /\ NewEmbeddings(r) = {}
                /\ run_total[r] = 0
                /\ \A i \in 1..Len(attempted[r]) : attempted[r][i].chunks = 0
                /\ \A i \in 1..Len(materials[r]) :
                       materials[r][i].storage_path \notin seen_processed[r]

\* C5 witness: the run after a completed run that stored chunks has discovered
\* a document again and has completed too.
C5_Witness ==
    /\ OnePrimaryPerMaterial
    /\ \E r \in Runs :
          /\ after_complete[r]
          /\ pc[r] = "done"
          /\ materials[r] # <<>>
          /\ base_count[r] > 0

\* every chunk of the document at x.storage_path is stored for x.file_id
DocumentStored(x) ==
    LET d == disk[x.storage_path].pages
    IN  \A p \in 1..Len(d) :
            \A k \in 1..d[p].n :
                \E i \in 1..Len(text_chunk) :
                    /\ text_chunk[i].file_id = x.file_id
                    /\ text_chunk[i].path = x.storage_path
                    /\ text_chunk[i].page_number = p
                    /\ text_chunk[i].lo <= k /\ k <= text_chunk[i].hi

\* C6: once a later run has completed, every document that an earlier run
\* gave up on after committing a group of it is stored in full.
C6_RetryCompletes ==
    OnePrimaryPerMaterial =>
        \A r \in Runs :
            pc[r] = "done" => \A x \in partial : DocumentStored(x)

\* the file is missing, the material has no primary file_asset row, or the
\* file cannot be opened
Unavailable(m) ==
    \/ disk[m.storage_path].state \in {"missing", "corrupt"}
    \/ ~\E g \in Files : /\ file_asset[g].material_id = m.material_id
                         /\ file_asset[g].is_primary

\* C7: the call of process_pdf for a discovered document whose file is
\* missing, has no primary file_asset row or cannot be opened returns 0
\* chunks and inserts no row, and main() is then at its next document.
C7_SkipAndContinue ==
    [][\A r \in Runs :
          (/\ pc[r] = "loop"
           /\ idx[r] <= Len(materials[r])
           /\ Unavailable(Current(r))
           /\ attempted'[r] # attempted[r])
          => /\ text_chunk' = text_chunk
             /\ chunk_embedding' = chunk_embedding
             /\ Len(attempted'[r]) = idx[r]
             /\ attempted'[r][idx[r]].storage_path = Current(r).storage_path
             /\ attempted'[r][idx[r]].chunks = 0
             /\ run_total'[r] = run_total[r]
             /\ pc'[r] = "loop"
             /\ idx'[r] = idx[r] + 1]_vars

\* C7 witness: a run skipped a document and went on to store the chunks of a
\* later one.
C7_Witness ==
    \E r \in Runs :
        /\ pc[r] = "done"
        /\ \E i, j \in 1..Len(attempted[r]) :
              /\ i < j
              /\ Skipped(attempted[r][i])
              /\ attempted[r][j].outcome = "processed"
              /\ attempted[r][j].chunks > 0

\* C8: batch_chunks never holds more than 100 pairs; a transaction of
\* insert_batch inside the page loop holds exactly 100, the one after the
\* loop fewer, and between two flushes the buffer is below 100.
C8_BoundedTransactions ==
    \A r \in Runs :
        /\ Count(batch_chunks[r]) <= 100
        /\ pc[r] = "flush" => Count(batch_chunks[r]) = 100
        /\ pc[r] \in {"pages", "final"} => Count(batch_chunks[r]) < 100

\* C8 witness: a document of more than 100 chunks has had its first group of
\* 100 committed and the rest is buffered for the last transaction.
C8_Witness ==
    \E r \in Runs :
        /\ pc[r] = "final"
        /\ doc_total[r] = 100
        /\ batch_chunks[r] # <<>>

\* C9: a run that has ended has called process_pdf for every discovered
\* document, once each and in discovery order, and each call was processed or
\* skipped.
C9_AttemptsEveryDocument ==
    \A r \in Runs :
        Ended(r) =>
            /\ Len(attempted[r]) = Len(materials[r])
            /\ \A i \in 1..Len(attempted[r]) :
                   /\ attempted[r][i].storage_path = materials[r][i].storage_path
                   /\ \/ Skipped(attempted[r][i])
                      \/ attempted[r][i].outcome = "processed"

\* C10: when get_pdf_page has responded, on whatever path, the document it
\* opened is not left open.
C10_HandleReleased == rp_pc = "responded" => rp_doc # "open"

\* the requested page is not a page of the stored document
OutOfRange == rp_in.page_num < 1 \/ rp_in.page_num > rp_in.pages

\* the query returned and the request is for a remote asset that may be read
RemoteRequest ==
    /\ "fetchone" \in rp_calls
    /\ rp_in.file_info = "row"
    /\ rp_in.is_accessible
    /\ rp_in.storage_provider = "supabase"

\* C11: a request for a page outside 1..N of a document that was opened, for
\* every page count N >= 0, ends with status 404.
C11_OutOfRangeNotFound ==
    (rp_pc = "responded" /\ "open" \in rp_calls /\ rp_doc # "none" /\ OutOfRange)
        => rp_status = 404

\* C12: once the query has returned no primary row, or a row that is not
\* accessible, the request touches neither storage client, filesystem nor
\* document, and it ends with 404 in the first case and 403 in the second,
\* whatever the provider and the page number.
C12_LookupDecidesFirst ==
    ("fetchone" \in rp_calls /\ (rp_in.file_info = "none" \/ ~rp_in.is_accessible))
        => /\ rp_calls \cap StorageCalls = {}
           /\ rp_doc = "none"
           /\ rp_pc \in {"except_http", "responded"}
           /\ rp_status = IF rp_in.file_info = "none" THEN 404 ELSE 403

\* C12 witness: a request for a remote asset that is not accessible has been
\* answered.
C12_Witness ==
    /\ rp_pc = "responded"
    /\ rp_in.file_info = "row"
    /\ ~rp_in.is_accessible
    /\ rp_in.storage_provider = "supabase"
    /\ rp_in.supabase_client /\ rp_in.storage_bucket
    /\ rp_status = 403

\* C13: a request for an accessible remote asset without storage_bucket never
\* calls download or opens a document, and it ends with the status 500 of a
\* configuration error.
C13_NullBucketNoDownload ==
    (RemoteRequest /\ ~rp_in.storage_bucket)
        => /\ rp_calls \cap StorageCalls = {}
           /\ rp_doc = "none"
           /\ rp_pc = "responded" => rp_status = 500

\* C13 witness: with the storage client configured, a request for an
\* accessible remote asset without bucket has been answered.
C13_Witness ==
    /\ RemoteRequest
    /\ rp_in.supabase_client
    /\ ~rp_in.storage_bucket
    /\ rp_pc = "responded"

\* C14: a request for a remote asset made while the storage client is not
\* initialized ends with the status 503 of ServiceUnavailable.
C14_ServiceUnavailable ==
    (RemoteRequest /\ ~rp_in.supabase_client /\ rp_pc = "responded")
        => rp_status = 503

\* C15: every returned result satisfies the predicate of every filter the
\* request supplies (topic, year_min, year_max not null, whatever the value).
C15_FiltersApplied ==
    ss_status = 200 =>
        \A i \in 1..Len(ss_results) :
            LET c == ss_results[i].chunk_id
            IN  /\ ss_req.topic # None => TopicMatches(c, ss_req.topic)
                /\ ss_req.year_min # None => YearAtLeast(c, ss_req.year_min)
                /\ ss_req.year_max # None => YearAtMost(c, ss_req.year_max)

\* C16: the results are at most `limit`, each reports similarity = 1 -
\* distance, and a row at smaller distance comes before a row at greater
\* distance, with greater similarity; a row left out is at no smaller
\* distance than a row returned.
C16_RankedByDistance ==
    ss_status = 200 =>
        /\ Len(ss_results) <= ss_req.limit
        /\ \A i \in 1..Len(ss_results) :
               ss_results[i].similarity = 1 - ss_distance[ss_results[i].chunk_id]
        /\ \A i, j \in 1..Len(ss_results) :
               ss_distance[ss_results[i].chunk_id] < ss_distance[ss_results[j].chunk_id]
                   => i < j /\ ss_results[i].similarity > ss_results[j].similarity
        /\ \A c \in Matching(ss_req) :
               (\A i \in 1..Len(ss_results) : ss_results[i].chunk_id # c)
                   => \A i \in 1..Len(ss_results) :
                          ss_distance[ss_results[i].chunk_id] <= ss_distance[c]

\* C16 witness: a search returned `limit` results at different distances and
\* left a matching row out.
C16_Witness ==
    /\ ss_status = 200
    /\ Len(ss_results) = 2
    /\ ss_req.limit = 2
    /\ Cardinality(Matching(ss_req)) > 2
    /\ ss_distance[ss_results[1].chunk_id] # ss_distance[ss_results[2].chunk_id]

\* C17: while the embedding model is not loaded a search request computes no
\* embedding, executes no query, returns no result list, and ends with 503.
C17_FailsFastWithoutModel ==
    ~ss_model =>
        /\ ss_calls = {}
        /\ ss_results = <<>>
        /\ ss_pc \in {"idle", "request", "responded"}
        /\ ss_pc = "responded" => ss_status = 503

\* C17 witness: a search request made without the model has been answered.
C17_Witness == ~ss_model /\ ss_pc = "responded" /\ ss_status = 503

\* the length of a trimmed chunk
ChunkLen(chunk) == chunk.hi - chunk.lo

\* a non-empty suffix of chunk a is a prefix of chunk b
SharesSpan(a, b) ==
    \E k \in 1..Min(ChunkLen(a), ChunkLen(b)) :
        Slice(ct_text, a.hi - k, a.hi) = Slice(ct_text, b.lo, b.lo + k)

\* C18: the list chunk_text returns holds the trimmed chunks of length >= 50
\* and only those: every returned chunk has length >= 50, and every trimmed
\* window of length >= 50 is returned.
C18_FilterKeepsFromFifty ==
    ct_pc = "done" =>
        /\ \A i \in 1..Len(ct_out) : ChunkLen(ct_out[i]) >= 50
        /\ \A i \in 1..Len(ct_chunks) :
               ChunkLen(ct_chunks[i]) >= 50
                   => \E j \in 1..Len(ct_out) : ct_out[j] = ct_chunks[i]

\* C19: when chunk_text returns more than one chunk, a non-empty suffix of
\* each returned chunk is a prefix of the chunk returned after it.
C19_ConsecutiveChunksOverlap ==
    ct_pc = "done" =>
        \A i \in 1..(Len(ct_out) - 1) : SharesSpan(ct_out[i], ct_out[i + 1])

\* C20 as claimed: the window after a window that was not snapped starts
\* chunk_size after it.
C20_StepIsTargetSize ==
    \A i \in 1..(Len(ct_chunks) - 1) :
        ~ct_chunks[i].snapped
            => ct_chunks[i + 1].start - ct_chunks[i].start = ct_size

\* C20 amended: every window is cut chunk_size after its start unless it is
\* snapped, the next window starts `overlap` before that cut, and so the
\* window after a window that was not snapped starts chunk_size - overlap
\* after it.
C20_StepIsSizeLessOverlap ==
    \A i \in 1..Len(ct_chunks) :
        /\ ~ct_chunks[i].snapped => ct_chunks[i].end = ct_chunks[i].start + ct_size
        /\ i < Len(ct_chunks) =>
              /\ ct_chunks[i + 1].start = ct_chunks[i].end - ct_overlap
              /\ ~ct_chunks[i].snapped =>
                     ct_chunks[i + 1].start - ct_chunks[i].start
                         = ct_size - ct_overlap

\* C20 witness: chunk_text has returned after a window that was not snapped
\* and a window after it.
C20_Witness ==
    /\ ct_pc = "done"
    /\ Len(ct_chunks) > 1
    /\ ~ct_chunks[1].snapped

\* the window's raw cut does not reach the end of the text
NonFinal(w) == w.start + ct_size < TextLen(ct_text)

\* C21: every window that does not reach the end of the text is cut at its
\* last '.' or newline exactly when the window so cut is at least half of
\* chunk_size long, and is cut at chunk_size otherwise; so its untrimmed
\* length lies between chunk_size / 2 and chunk_size.
C21_SnapsFromHalf ==
    \A i \in 1..Len(ct_chunks) :
        LET w == ct_chunks[i]
        IN  NonFinal(w) =>
              /\ w.snapped <=> (w.break_point >= 0
                                  /\ 2 * (w.break_point + 1) >= ct_size)
              /\ w.snapped => w.end = w.start + w.break_point + 1
              /\ ~w.snapped => w.end = w.start + ct_size
              /\ 2 * (w.end - w.start) >= ct_size
              /\ w.end - w.start <= ct_size

\* C21 counterexample: a window that does not reach the end of the text holds
\* a '.' or newline at which it would be at least half of chunk_size long,
\* and is cut at chunk_size.
C21_BoundaryNotSnapped ==
    \E i \in 1..Len(ct_chunks) :
        LET w == ct_chunks[i]
        IN  /\ NonFinal(w)
            /\ 2 * (w.break_point + 1) >= ct_size
            /\ ~w.snapped
            /\ w.end = w.start + ct_size

\* C25: the window start strictly increases on every iteration of the loop
\* of chunk_text, also after a window that was snapped, so that the loop ends.
C25_StartIncreases ==
    \A i \in 1..Len(ct_chunks) :
        ct_chunks[i].start <
            (IF i < Len(ct_chunks) THEN ct_chunks[i + 1].start ELSE ct_start)

\* C25 failing state: the loop is at the start it was at one iteration before.
C25_StartRepeats ==
    /\ ct_pc = "loop"
    /\ Len(ct_chunks) = MaxWindows
    /\ \A i \in 1..Len(ct_chunks) : ct_chunks[i].start = ct_start
    /\ ct_start < TextLen(ct_text)

\* chunk b lies inside the span of the text chunk a covers
Inside(b, a) == a.lo <= b.lo /\ b.hi <= a.hi

\* C30: no chunk chunk_text returns lies inside the span of the text covered
\* by the chunk returned before it.
C30_NoRedundantChunk ==
    ct_pc = "done" =>
        \A i \in 1..(Len(ct_out) - 1) : ~Inside(ct_out[i + 1], ct_out[i])

\* C30 failing state: chunk_text has returned the chunk of a window that
\* reaches the end of the text and, after it, the chunk of the window that
\* starts `overlap` before that end.
C30_RedundantTail ==
    /\ ct_pc = "done"
    /\ \E i \in 1..(Len(ct_out) - 1) :
           /\ ~NonFinal(ct_out[i])
           /\ ct_out[i + 1].start = ct_out[i].end - ct_overlap
           /\ Inside(ct_out[i + 1], ct_out[i])

\* the chunk_id of the first row of the range text_chunk[i]
FirstChunkId(i) == Count(SubSeq(text_chunk, 1, i - 1)) + 1

\* the ranges of text_chunk that invocation r inserted, since its discovery
\* query, for the document whose process_pdf call is logged as x
RowsOf(r, x) ==
    { i \in 1..Len(text_chunk) :
        /\ text_chunk[i].by = r
        /\ text_chunk[i].path = x.storage_path
        /\ FirstChunkId(i) > base_count[r] }

\* chunk_embedding holds, for each row of the range text_chunk[i], one row
\* with its chunk_id and the embedding of its chunk_text
HasOwnEmbeddings(i) ==
    LET g == text_chunk[i]
        own == { j \in 1..Len(chunk_embedding) :
                   /\ chunk_embedding[j].chunk_id <= LastChunkId(
                          [chunk_id |-> FirstChunkId(i), lo |-> g.lo, hi |-> g.hi])
                   /\ LastChunkId(chunk_embedding[j]) >= FirstChunkId(i) }
    IN  /\ Cardinality(own) = 1
        /\ \A j \in own :
               /\ chunk_embedding[j].chunk_id = FirstChunkId(i)
               /\ chunk_embedding[j].path = g.path
               /\ chunk_embedding[j].page_number = g.page_number
               /\ chunk_embedding[j].lo = g.lo
               /\ chunk_embedding[j].hi = g.hi

\* C22: when process_pdf has returned normally for a document, the rows the
\* call has stored are the chunks chunk_text returns for each page that is
\* not blank, each once, with page_number = page index + 1 and with its own
\* embedding; a blank page has no row; the count returned is the number of
\* rows stored.
C22_RowsAreSegmenterOutput ==
    \A r \in Runs :
        \A n \in 1..Len(attempted[r]) :
            LET x == attempted[r][n]
                d == disk[x.storage_path].pages
                rows == RowsOf(r, x)
            IN  x.outcome = "processed" =>
                  /\ \A i \in rows :
                         LET g == text_chunk[i]
                         IN  /\ g.page_number \in 1..Len(d)
                             /\ ~d[g.page_number].blank
                             /\ 1 <= g.lo /\ g.lo <= g.hi
                             /\ g.hi <= d[g.page_number].n
                             /\ HasOwnEmbeddings(i)
                  /\ \A p \in 1..Len(d) :
                         \A k \in 1..d[p].n :
                             Cardinality({ i \in rows :
                                 /\ text_chunk[i].page_number = p
                                 /\ text_chunk[i].lo <= k
                                 /\ k <= text_chunk[i].hi }) = 1
                  /\ x.chunks =
                         Count(SelectSeq(Drop(text_chunk, base_count[r]),
                                         LAMBDA g : /\ g.by = r
                                                    /\ g.path = x.storage_path))

\* C22 witness: one invocation has processed a document with a blank page
\* between two pages of text and a document of which a group of batch_size
\* holds chunks of two pages.
C22_Witness ==
    \E r \in Runs :
        \E n, m \in 1..Len(attempted[r]) :
            /\ attempted[r][n].outcome = "processed"
            /\ disk[attempted[r][n].storage_path] = OnDisk(SmallDoc)
            /\ attempted[r][n].chunks = 2 * SmallPage
            /\ attempted[r][m].outcome = "processed"
            /\ disk[attempted[r][m].storage_path] = OnDisk(BigDoc)
            /\ attempted[r][m].chunks = BigPage + SmallPage
            /\ \E i \in RowsOf(r, attempted[r][m]) :
                   /\ text_chunk[i].page_number = 2
                   /\ text_chunk[i].hi < SmallPage

\* C23: every result a search returns is of a chunk whose file_asset row is
\* the primary asset of its material.
C23_ResultsFromPrimaryAssets ==
    ss_status = 200 =>
        \A i \in 1..Len(ss_results) : PrimaryOfChunk(ss_results[i].chunk_id)

\* C23 failing state: a search has returned, first, a chunk attached to an
\* asset that is not primary.
C23_SecondaryAssetReturned ==
    /\ ss_status = 200
    /\ Len(ss_results) > 0
    /\ ~PrimaryOfChunk(ss_results[1].chunk_id)

\* the last n words of chunk a are the first n words of chunk b
SharesWords(a, b, n) ==
    LET wa == split(a.text)
        wb == split(b.text)
    IN  /\ Len(wa) >= n
        /\ Len(wb) >= n
        /\ SubSeq(wa, Len(wa) - n + 1, Len(wa)) = SubSeq(wb, 1, n)
        /\ a.start + Len(wa) - b.start = n

\* C24: every chunk the word-based chunk_text yields has at most chunk_size
\* words, and the last `overlap` words of each yielded chunk are the first
\* `overlap` words of the chunk yielded after it, these being all the words
\* the two share.
C24_SharesOverlapWords ==
    /\ \A i \in 1..Len(wt_out) : Len(split(wt_out[i].text)) <= wt_size
    /\ \A i \in 1..(Len(wt_out) - 1) :
           SharesWords(wt_out[i], wt_out[i + 1], wt_overlap)

\* C24 failing state: the last chunk yielded has fewer than `overlap` words.
C24_ShortFinalChunk ==
    /\ wt_pc = "done"
    /\ Len(wt_out) > 1
    /\ Len(split(wt_out[Len(wt_out)].text)) < wt_overlap

\* get_pdf_page opened a document
Opened == "open" \in rp_calls /\ rp_doc # "none"

\* C26: when get_pdf_page has responded, a document it opened was closed
\* exactly once and was not touched after it was closed, and the status an
\* except clause ends with is the status that was raised into it.
C26_ClosedExactlyOnce ==
    /\ [](rp_pc = "responded" /\ Opened
            => rp_closes = 1 /\ "closed.__len__" \notin rp_calls)
    /\ [][rp_pc = "except_http" /\ rp_pc' = "responded"
            => rp_status' = rp_status]_vars

\* C26 failing state: the page was out of range, the document was closed at
\* the range check and closed again by the except clause.
C26_ClosedTwice ==
    /\ rp_pc = "responded"
    /\ Opened
    /\ OutOfRange
    /\ "closed.__len__" \in rp_calls
    /\ rp_closes = 2

\* C27: every text_chunk row process_pdf inserts for a discovered
\* (material_id, storage_path) carries the file_id of the file_asset row with
\* that storage_path.
C27_AttachedToDiscoveredAsset ==
    \A i \in 1..Len(text_chunk) :
        text_chunk[i].by # 0 => text_chunk[i].file_id = text_chunk[i].path

\* C27 failing state: a run has processed two documents of one material and
\* every row it stored carries the same file_id.
C27_AllOnOneAsset ==
    \E r \in Runs :
        /\ pc[r] = "done"
        /\ \E n, m \in 1..Len(attempted[r]) :
               /\ n # m
               /\ attempted[r][n].outcome = "processed"
               /\ attempted[r][m].outcome = "processed"
               /\ attempted[r][n].chunks > 0
               /\ attempted[r][m].chunks > 0
        /\ \A i, j \in 1..Len(text_chunk) :
               text_chunk[i].file_id = text_chunk[j].file_id

\* process_pdf is running in invocation r
InProcessPdf(r) == pc[r] \in {"pages", "flush", "final"}

\* C28: once process_pdf has returned or raised, the document it opened is
\* not open.
C28_DocumentClosedOnExit ==
    \A r \in Runs : ~InProcessPdf(r) => doc[r] # "open"

\* C28 failing state: insert_batch raised after a group of the document was
\* committed, main() has ended, and the document is still open.
C28_LeftOpen ==
    \E r \in Runs :
        /\ pc[r] = "aborted"
        /\ error[r] = "insert"
        /\ NewChunks(r) # {}
        /\ doc[r] = "open"

\* C29: a call of vectorize_pdf in which a step raises once the transaction
\* has begun leaves text_chunk and chunk_embedding as they were, a call in
\* which none raises adds the rows of the whole document; and when the call
\* has ended the document it opened is closed and so is the session it
\* created.
C29_AllOrNothing ==
    /\ [][vp_pc' = "finally" /\ vp_pc # "finally" =>
            IF vp_error'.step = "none"
            THEN Count(text_chunk') - Count(text_chunk) = vp_error'.executed \div 2
                 /\ Count(chunk_embedding') - Count(chunk_embedding)
                        = vp_error'.executed \div 2
            ELSE UNCHANGED store]_vars
    /\ [](vp_pc \in {"returned", "raised"}
            => vp_doc # "open" /\ vp_session # "created")

\* C29 witness: in a call of vectorize_pdf with a session of its own, against
\* a store that holds rows, an INSERT raised after others had been executed;
\* the call has ended.
C29_Witness ==
    /\ vp_pc = "raised"
    /\ vp_error.step = "insert"
    /\ vp_error.executed > 1
    /\ vp_doc = "closed"
    /\ vp_session = "closed"
    /\ text_chunk # <<>>

====
